---- MODULE Spec2Model ----
(***************************************************************************)
(* A model of cmsis-pack-manager's two Rust cores:                         *)
(*   rust/pdsc/src/device.rs        the PDSC device-tree parser and the    *)
(*                                  catalog assembler (Devices::from_elem) *)
(*   rust/cmsis-update/src/vidx.rs  the VIDX/PIDX crawler (flatmap_pdscs)  *)
(*                                                                         *)
(* SpecPdsc walks one <devices> element child by child, the way the        *)
(* closures of parse_family, parse_sub_family and parse_device do; the     *)
(* elements met on the way are drawn from small sets of XML elements.      *)
(* SpecCrawl polls the stream flatmap_pdscs returns while the PIDX         *)
(* fetches complete in any order.                                          *)
(***************************************************************************)
EXTENDS Integers, Sequences, FiniteSets, TLC

(***************************************************************************)
(* Option<T> and Result<T, E>                                              *)
(***************************************************************************)
None == [some |-> FALSE]
Some(x) == [some |-> TRUE, v |-> x]
Or(a, b) == IF a.some THEN a ELSE b
UnwrapOr(a, d) == IF a.some THEN a.v ELSE d

Ok(x) == [ok |-> TRUE, v |-> x]
Err(m) == [ok |-> FALSE, e |-> m]
\* Result::ok(): Ok(x) -> Some(x), Err(_) -> None
ResOk(r) == IF r.ok THEN Some(r.v) ELSE None

\* e.attr(key) of an attribute the element does not carry
Absent == "<absent>"

(***************************************************************************)
(* The bounds of the model                                                 *)
(***************************************************************************)
\* elements of one document below <devices>: families, subFamilies, devices,
\* variants, memories, algorithms, processors and others
MaxElems == 5
\* entries of root_vidx.vendor_index
MaxPidx == 2
\* entries of one pdsc_index
MaxRefs == 2
\* families and children of families in one document of element trees
MaxTopElems == 6

(***************************************************************************)
(* FromStr of the attribute types                                          *)
(***************************************************************************)
CoreFromStr(from) ==
  CASE from = "Cortex-M0" -> Ok("CortexM0")
    [] from = "Cortex-M0+" -> Ok("CortexM0Plus")
    [] from = "Cortex-M1" -> Ok("CortexM1")
    [] from = "Cortex-M3" -> Ok("CortexM3")
    [] from = "Cortex-M4" -> Ok("CortexM4")
    [] from = "Cortex-M7" -> Ok("CortexM7")
    [] from = "Cortex-M23" -> Ok("CortexM23")
    [] from = "Cortex-M33" -> Ok("CortexM33")
    [] from = "SC000" -> Ok("SC000")
    [] from = "SC300" -> Ok("SC300")
    [] from = "ARMV8MBL" -> Ok("ARMV8MBL")
    [] from = "ARMV8MML" -> Ok("ARMV8MML")
    [] from = "Cortex-R4" -> Ok("CortexR4")
    [] from = "Cortex-R5" -> Ok("CortexR5")
    [] from = "Cortex-R7" -> Ok("CortexR7")
    [] from = "Cortex-R8" -> Ok("CortexR8")
    [] from = "Cortex-A5" -> Ok("CortexA5")
    [] from = "Cortex-A7" -> Ok("CortexA7")
    [] from = "Cortex-A8" -> Ok("CortexA8")
    [] from = "Cortex-A9" -> Ok("CortexA9")
    [] from = "Cortex-A15" -> Ok("CortexA15")
    [] from = "Cortex-A17" -> Ok("CortexA17")
    [] from = "Cortex-A32" -> Ok("CortexA32")
    [] from = "Cortex-A35" -> Ok("CortexA35")
    [] from = "Cortex-A53" -> Ok("CortexA53")
    [] from = "Cortex-A57" -> Ok("CortexA57")
    [] from = "Cortex-A72" -> Ok("CortexA72")
    [] from = "Cortex-A73" -> Ok("CortexA73")
    [] OTHER -> Err("Unknown core")

FpuFromStr(from) ==
  CASE from = "FPU" -> Ok("SinglePrecision")
    [] from = "SP_FPU" -> Ok("SinglePrecision")
    [] from = "1" -> Ok("SinglePrecision")
    [] from = "None" -> Ok("FpuNone")
    [] from = "0" -> Ok("FpuNone")
    [] from = "DP_FPU" -> Ok("DoublePrecision")
    [] from = "2" -> Ok("DoublePrecision")
    [] OTHER -> Err("Unknown fpu")

MpuFromStr(from) ==
  CASE from = "MPU" -> Ok("Present")
    [] from = "1" -> Ok("Present")
    [] from = "None" -> Ok("NotPresent")
    [] from = "0" -> Ok("NotPresent")
    [] OTHER -> Err("Unknown fpu")

NumberBoolFromStr(from) ==
  CASE from = "true" -> Ok(TRUE)
    [] from = "1" -> Ok(TRUE)
    [] from = "false" -> Ok(FALSE)
    [] from = "0" -> Ok(FALSE)
    [] OTHER -> Err("unkown boolean found in merory startup")

\* <bool as FromStr>: the type of Algorithm::default
BoolFromStr(from) ==
  CASE from = "true" -> Ok(TRUE)
    [] from = "false" -> Ok(FALSE)
    [] OTHER -> Err("provided string was not true or false")

\* <u8 as FromStr> on the Punits values of the elements below
U8FromStr(from) ==
  CASE from = "1" -> Ok(1)
    [] from = "2" -> Ok(2)
    [] from = "4" -> Ok(4)
    [] OTHER -> Err("invalid digit found in string")

\* u64::from_str_radix(_, 16) after an optional 0x, on the values of the
\* elements below
HexFromStr(from) ==
  CASE from = "0x20000000" -> Ok(536870912)
    [] from = "0x08000000" -> Ok(134217728)
    [] from = "0x10000" -> Ok(65536)
    [] from = "0x20000" -> Ok(131072)
    [] from = "0x100000" -> Ok(1048576)
    [] from = "0x0" -> Ok(0)
    [] from = "1000" -> Ok(4096)
    [] OTHER -> Err("invalid digit found in string")

(***************************************************************************)
(* utils::parse: the attribute helpers                                     *)
(***************************************************************************)
attr_map(v) == IF v = Absent THEN Err("missing attribute") ELSE Ok(v)
attr_parse_core(v) == IF v = Absent THEN Err("missing attribute") ELSE CoreFromStr(v)
attr_parse_fpu(v) == IF v = Absent THEN Err("missing attribute") ELSE FpuFromStr(v)
attr_parse_mpu(v) == IF v = Absent THEN Err("missing attribute") ELSE MpuFromStr(v)
attr_parse_u8(v) == IF v = Absent THEN Err("missing attribute") ELSE U8FromStr(v)
attr_parse_number_bool(v) ==
  IF v = Absent THEN Err("missing attribute") ELSE NumberBoolFromStr(v)
attr_parse_bool(v) == IF v = Absent THEN Err("missing attribute") ELSE BoolFromStr(v)
attr_parse_hex(v) == IF v = Absent THEN Err("missing attribute") ELSE HexFromStr(v)
\* Result<bool>::unwrap_or_default()
UnwrapOrDefaultBool(r) == IF r.ok THEN r.v ELSE FALSE

(***************************************************************************)
(* ProcessorBuilder, ProcessorsBuilder                                     *)
(***************************************************************************)
\* a mutant of ProcessorBuilderMerge: the parent's fields win
ProcessorBuilderMergeParentWins(me, parent) ==
  [core |-> Or(parent.core, me.core),
   units |-> Or(parent.units, me.units),
   fpu |-> Or(parent.fpu, me.fpu),
   mpu |-> Or(parent.mpu, me.mpu)]

ProcessorBuilderMerge(me, parent) ==
  [core |-> Or(me.core, parent.core),
   units |-> Or(me.units, parent.units),
   fpu |-> Or(me.fpu, parent.fpu),
   mpu |-> Or(me.mpu, parent.mpu)]

ProcessorBuilderBuild(me) ==
  IF ~me.core.some THEN Err("No Core found!")
  ELSE Ok([core |-> me.core.v,
           units |-> UnwrapOr(me.units, 1),
           fpu |-> UnwrapOr(me.fpu, "FpuNone"),
           mpu |-> UnwrapOr(me.mpu, "NotPresent")])

ProcessorBuilderFromElem(e) ==
  [core |-> ResOk(attr_parse_core(e.Dcore)),
   units |-> ResOk(attr_parse_u8(e.Punits)),
   fpu |-> ResOk(attr_parse_fpu(e.Dfpu)),
   mpu |-> ResOk(attr_parse_mpu(e.Dmpu))]

Symmetric(p) == [kind |-> "Symmetric", p |-> p]
Asymmetric(m) == [kind |-> "Asymmetric", map |-> m]

\* BTreeMap / HashMap as functions on the set of their keys
EmptyMap == <<>>
MapInsert(m, k, v) == [x \in DOMAIN m \cup {k} |-> IF x = k THEN v ELSE m[x]]
\* Extend::extend: every entry of more is inserted, replacing what is there
MapExtend(m, more) ==
  [x \in DOMAIN m \cup DOMAIN more |-> IF x \in DOMAIN more THEN more[x] ELSE m[x]]

ProcessorsBuilderMerge(me, parent) ==
  IF me.kind = "Symmetric"
  THEN IF ~parent.some THEN Ok(me)
       ELSE IF parent.v.kind = "Symmetric"
            THEN Ok(Symmetric(ProcessorBuilderMerge(me.p, parent.v.p)))
            ELSE Err("Tried to merge symmetric and asymmetric processors")
  ELSE IF ~parent.some THEN Ok(me)
       ELSE IF parent.v.kind = "Symmetric"
            THEN Err("Tried to merge asymmetric and symmetric processors")
            ELSE Ok(Asymmetric(MapExtend(me.map, parent.v.map)))

\* a mutant of ProcessorsBuilderMergeInto: a Symmetric sibling replaces an
\* Asymmetric slot
ProcessorsBuilderMergeIntoLastWins(me, other) ==
  IF me.kind = "Symmetric" THEN me
  ELSE IF other.kind = "Symmetric" THEN other
       ELSE Asymmetric(MapExtend(me.map, other.map))

ProcessorsBuilderMergeInto(me, other) ==
  IF me.kind = "Symmetric" THEN me
  ELSE IF other.kind = "Symmetric" THEN me
       ELSE Asymmetric(MapExtend(me.map, other.map))

ProcessorsBuilderBuild(me) ==
  IF me.kind = "Symmetric"
  THEN LET r == ProcessorBuilderBuild(me.p)
       IN IF r.ok THEN Ok(Symmetric(r.v)) ELSE r
  ELSE IF \E k \in DOMAIN me.map : ~ProcessorBuilderBuild(me.map[k]).ok
       THEN Err("No Core found!")
       ELSE Ok(Asymmetric([k \in DOMAIN me.map |-> ProcessorBuilderBuild(me.map[k]).v]))

ProcessorsBuilderFromElem(e) ==
  IF e.Pname # Absent
  THEN Ok(Asymmetric(MapInsert(EmptyMap, e.Pname, ProcessorBuilderFromElem(e))))
  ELSE Ok(Symmetric(ProcessorBuilderFromElem(e)))

(***************************************************************************)
(* The XML elements the walk can meet.  An attribute is a string, or       *)
(* Absent; the access attribute is a sequence of characters.               *)
(***************************************************************************)
MemoryElement(id, name, access, start, size, startup, default) ==
  [tag |-> "memory", id |-> id, name |-> name, access |-> access,
   start |-> start, size |-> size, startup |-> startup, default |-> default]

AlgorithmElement(name, start, size, ramstart, ramsize, default) ==
  [tag |-> "algorithm", name |-> name, start |-> start, size |-> size,
   RAMstart |-> ramstart, RAMsize |-> ramsize, default |-> default]

ProcessorElement(pname, dcore, dfpu, dmpu, punits) ==
  [tag |-> "processor", Pname |-> pname, Dcore |-> dcore, Dfpu |-> dfpu,
   Dmpu |-> dmpu, Punits |-> punits]

LevelElement(tag, dname, dvariant) ==
  [tag |-> tag, Dname |-> dname, Dvariant |-> dvariant]

\* a level element together with its children, in document order
Element(e, children) ==
  [tag |-> e.tag, Dname |-> e.Dname, Dvariant |-> e.Dvariant, children |-> children]

\* <memory id="IRAM1" start="0x20000000" size="0x10000"/> and what follows
MemIRAM1 == MemoryElement("IRAM1", Absent, None, "0x20000000", "0x10000", Absent, Absent)
MemIRAM1Big == MemoryElement("IRAM1", Absent, None, "0x20000000", "0x20000", Absent, Absent)
MemIROM1 == MemoryElement("IROM1", Absent, None, "0x08000000", "0x100000", "1", "1")
MemNoSize == MemoryElement("IRAM1", Absent, None, "0x20000000", Absent, Absent, Absent)
MemBadStart == MemoryElement("IROM1", Absent, None, "0xZZ", "0x10000", Absent, Absent)
MemNoName == MemoryElement(Absent, Absent, Some(<<"r", "w">>), "0x0", "0x10000", Absent, Absent)
MemNoAccessNoId == MemoryElement(Absent, "SRAM", None, "0x0", "0x10000", Absent, Absent)
MemoryElems ==
  {MemIRAM1, MemIRAM1Big, MemIROM1, MemNoSize, MemBadStart, MemNoName, MemNoAccessNoId}

AlgA == AlgorithmElement("A.FLM", "0x08000000", "0x100000", Absent, Absent, Absent)
AlgB == AlgorithmElement("B.FLM", "0x08000000", "0x100000", "0x20000000", "1000", "true")
AlgC == AlgorithmElement("C.FLM", "0x0", "0x10000", Absent, Absent, "1")
AlgNoName == AlgorithmElement(Absent, "0x0", "0x10000", Absent, Absent, Absent)
AlgBadSize == AlgorithmElement("A.FLM", "0x0", "64K", Absent, Absent, Absent)
AlgorithmElems == {AlgA, AlgB, AlgC, AlgNoName, AlgBadSize}

PrcM4Fpu == ProcessorElement(Absent, "Cortex-M4", "SP_FPU", Absent, Absent)
PrcMpu == ProcessorElement(Absent, Absent, Absent, "MPU", Absent)
PrcM0Units == ProcessorElement(Absent, "Cortex-M0", "DP_FPU", Absent, "2")
PrcCm0M0 == ProcessorElement("cm0", "Cortex-M0", Absent, Absent, Absent)
PrcCm4M4 == ProcessorElement("cm4", "Cortex-M4", Absent, Absent, Absent)
PrcCm0M4 == ProcessorElement("cm0", "Cortex-M4", "DP_FPU", Absent, Absent)
ProcessorElems ==
  {PrcM4Fpu, PrcMpu, PrcM0Units, PrcCm0M0, PrcCm4M4, PrcCm0M4}

FamilyElems == {LevelElement("family", Absent, Absent)}
SubFamilyElems == {LevelElement("subFamily", Absent, Absent)}
DeviceElems ==
  {LevelElement("device", "D1", Absent), LevelElement("device", "D2", Absent),
   LevelElement("device", Absent, Absent)}
VariantElems ==
  {LevelElement("variant", Absent, "V1"), LevelElement("variant", Absent, "V2")}

(***************************************************************************)
(* MemoryPermissions, Memory, MemElem, Memories                            *)
(***************************************************************************)
MemoryPermissionsFromStr(input) ==
  LET has(c) == \E i \in DOMAIN input : input[i] = c
  IN [read |-> has("r"), write |-> has("w"), execute |-> has("x"),
      peripheral |-> has("p"), secure |-> has("s"), non_secure |-> has("n"),
      non_secure_callable |-> has("c")]

\* str::contains on the region ids of the elements above
Contains(s, pat) ==
  CASE pat = "ROM" -> s \in {"IROM1"}
    [] pat = "RAM" -> s \in {"IRAM1", "SRAM"}
    [] OTHER -> FALSE

\* .unwrap() of the access string: neither access nor id
MemElemPanics(e) == ~e.access.some /\ e.id = Absent

\* MemElem::from_elem of an element on which it does not panic
MemElemFromElem(e) ==
  LET access == MemoryPermissionsFromStr(
                  IF e.access.some THEN e.access.v
                  ELSE IF Contains(e.id, "ROM") THEN <<"r", "x">>
                  ELSE IF Contains(e.id, "RAM") THEN <<"r", "w">>
                  ELSE <<>>)
      name == IF e.id # Absent THEN Some(e.id)
              ELSE IF e.name # Absent THEN Some(e.name) ELSE None
      start == attr_parse_hex(e.start)
      size == attr_parse_hex(e.size)
      startup == UnwrapOrDefaultBool(attr_parse_number_bool(e.startup))
      default == UnwrapOrDefaultBool(attr_parse_number_bool(e.default))
  IN IF ~name.some THEN Err("No name found for memory")
     ELSE IF ~start.ok THEN start
     ELSE IF ~size.ok THEN size
     ELSE Ok([name |-> name.v,
              mem |-> [access |-> access, start |-> start.v, size |-> size.v,
                       startup |-> startup, default |-> default]])

\* a mutant of merge_memories: the parent's region replaces the child's
merge_memories_parent_wins(lhs, rhs) == MapExtend(lhs, rhs)

merge_memories(lhs, rhs) ==
  LET keep == {k \in DOMAIN rhs : k \notin DOMAIN lhs}
  IN MapExtend(lhs, [k \in keep |-> rhs[k]])

(***************************************************************************)
(* Algorithm                                                               *)
(***************************************************************************)
AlgorithmFromElem(e) ==
  LET file_name == attr_map(e.name)
      start == attr_parse_hex(e.start)
      size == attr_parse_hex(e.size)
  IN IF ~file_name.ok THEN file_name
     ELSE IF ~start.ok THEN start
     ELSE IF ~size.ok THEN size
     ELSE Ok([file_name |-> file_name.v, start |-> start.v, size |-> size.v,
              ram_start |-> ResOk(attr_parse_hex(e.RAMstart)),
              ram_size |-> ResOk(attr_parse_hex(e.RAMsize)),
              default |-> UnwrapOrDefaultBool(attr_parse_bool(e.default))])

(***************************************************************************)
(* DeviceBuilder                                                           *)
(***************************************************************************)
DeviceBuilderFromElem(e) ==
  [name |-> IF e.Dname # Absent THEN Some(e.Dname)
            ELSE IF e.Dvariant # Absent THEN Some(e.Dvariant) ELSE None,
   memories |-> EmptyMap,
   algorithms |-> <<>>,
   processor |-> None]

DeviceBuilderBuild(me) ==
  IF ~me.name.some THEN Err("Device found without a name")
  ELSE IF ~me.processor.some THEN Err("Device found without a processor")
  ELSE LET prc == ProcessorsBuilderBuild(me.processor.v)
       IN IF ~prc.ok THEN prc
          ELSE Ok([name |-> me.name.v, memories |-> me.memories,
                   algorithms |-> me.algorithms, processor |-> prc.v])

\* a mutant of add_parent: the parent's algorithms come first
add_parent_algorithms_first(me, parent) ==
  LET prc == IF me.processor.some
             THEN ProcessorsBuilderMerge(me.processor.v, parent.processor)
             ELSE Ok(None)
  IN IF ~prc.ok THEN prc
     ELSE Ok([name |-> Or(me.name, parent.name),
              algorithms |-> parent.algorithms \o me.algorithms,
              memories |-> merge_memories(me.memories, parent.memories),
              processor |-> IF me.processor.some THEN Some(prc.v)
                            ELSE parent.processor])

add_parent(me, parent) ==
  LET prc == IF me.processor.some
             THEN ProcessorsBuilderMerge(me.processor.v, parent.processor)
             ELSE Ok(None)
  IN IF ~prc.ok THEN prc
     ELSE Ok([name |-> Or(me.name, parent.name),
              algorithms |-> me.algorithms \o parent.algorithms,
              memories |-> merge_memories(me.memories, parent.memories),
              processor |-> IF me.processor.some THEN Some(prc.v)
                            ELSE parent.processor])

add_processor(me, processor) ==
  [me EXCEPT !.processor =
     IF ~me.processor.some THEN Some(processor)
     ELSE Some(ProcessorsBuilderMergeInto(me.processor.v, processor))]

add_memory(me, m) ==
  [me EXCEPT !.memories = MapInsert(me.memories, m.name, m.mem)]

add_algorithm(me, alg) ==
  [me EXCEPT !.algorithms = Append(me.algorithms, alg)]

(***************************************************************************)
(* The walk of Devices::from_elem over one <devices> element               *)
(***************************************************************************)
VARIABLES
  pc,                \* where the walk is: "doc", "family", "subFamily",
                     \* "device", "done" (from_elem returned), "panicked"
  devs,              \* the accumulator of the fold of Devices::from_elem
  family_device,     \* parse_family's level builder
  sub_family_device, \* parse_sub_family's level builder, None outside of it
  device,            \* parse_device's level builder, None outside of it
  all_devices,       \* parse_family: the builders its children returned
  devices,           \* parse_sub_family: the builders its children returned
  variants,          \* parse_device: the builders of the variant children
  add_this,          \* what parse_family returned last
  built,             \* the Results parse_family's collect() drew, to the first Err
  lin_all,           \* history: for each of all_devices, the level builders
  lin_devices,       \*   (resp. devices) folded into it, the nearest first
  returned,          \* history: what parse_family returned, family by family
  prc_child,         \* history: the ProcessorsBuilder add_processor was handed
                     \*   in the step just taken, None after any other step
  nelem              \* elements met so far

pdsc_vars ==
  <<pc, devs, family_device, sub_family_device, device, all_devices, devices,
    variants, add_this, built, lin_all, lin_devices, returned, prc_child, nelem>>

\* the crawler's state
VARIABLES
  root,       \* the Vidx handed to flatmap_pdscs
  chain,      \* Chain's state: "First" (root pdsc_index) or "Second" (job)
  root_iter,  \* what is left of iter_ok(pdsc_index.into_iter())
  futs,       \* the futures of futures_unordered, one per Pidx:
              \*   uri, st ("new", "inflight", "woken", "gone"), res
  readyq,     \* the readiness queue of futures_unordered
  flat_next,  \* Flatten's inner stream, None between two of them
  out,        \* what the consumer has drawn from the stream so far
  ended,      \* the stream has returned Ready(None)
  vidx_out,   \* history: what download_vidx_list's stream has yielded
  arrived     \* history: the fetches in the order their responses arrived

crawl_vars ==
  <<root, chain, root_iter, futs, readyq, flat_next, out, ended, vidx_out, arrived>>

\* the child of <devices> handed to parse_family as one element tree
VARIABLES
  family_elem \* the element parse_family was called on last

Levels == {"family", "subFamily", "device"}

LevelBuilder ==
  CASE pc = "family" -> family_device
    [] pc = "subFamily" -> sub_family_device.v
    [] pc = "device" -> device.v

\* the level builder of the level being walked becomes b
SetLevelBuilder(b) ==
  /\ family_device' = IF pc = "family" THEN b ELSE family_device
  /\ sub_family_device' = IF pc = "subFamily" THEN Some(b) ELSE sub_family_device
  /\ device' = IF pc = "device" THEN Some(b) ELSE device

\* Result::ok_warn(l): Ok(x) -> Some(x), Err(e) -> None after a warning
ok_warn(r) == ResOk(r)

\* the indices of the Ok entries of a sequence of Results
RECURSIVE OkValues(_)
OkValues(rs) ==
  IF rs = <<>> THEN <<>>
  ELSE IF ok_warn(Head(rs)).some THEN <<Head(rs).v>> \o OkValues(Tail(rs))
  ELSE OkValues(Tail(rs))

\* a mutant of AddParentAll: the parent is returned too, after its children
AddParentAllAndParent(builders, parent) ==
  Append(OkValues([i \in DOMAIN builders |-> add_parent(builders[i], parent)]), parent)

\* a mutant of AddParentAll: a builder that has no processor once merged is
\* dropped, as if it were built at every level
AddParentAllNeedsProcessor(builders, parent) ==
  OkValues([i \in DOMAIN builders |->
              LET r == add_parent(builders[i], parent)
              IN IF r.ok /\ ~r.v.processor.some
                 THEN Err("Device found without a processor") ELSE r])

\* builders.into_iter().flat_map(|bldr| bldr.add_parent(&parent).ok_warn(l)).collect()
AddParentAll(builders, parent) ==
  OkValues([i \in DOMAIN builders |-> add_parent(builders[i], parent)])

\* the history of the builders AddParentAll keeps
RECURSIVE KeptLineage(_, _, _)
KeptLineage(builders, lineage, parent) ==
  IF builders = <<>> THEN <<>>
  ELSE IF add_parent(Head(builders), parent).ok
       THEN <<Append(Head(lineage), parent)>>
            \o KeptLineage(Tail(builders), Tail(lineage), parent)
       ELSE KeptLineage(Tail(builders), Tail(lineage), parent)

\* Devices::from_elem is entered; no stream is being polled
PdscInit ==
  /\ pc = "doc"
  /\ devs = Ok(EmptyMap)
  /\ family_device = DeviceBuilderFromElem(LevelElement("family", Absent, Absent))
  /\ sub_family_device = None
  /\ device = None
  /\ all_devices = <<>>
  /\ devices = <<>>
  /\ variants = <<>>
  /\ add_this = Ok(<<>>)
  /\ built = <<>>
  /\ lin_all = <<>>
  /\ lin_devices = <<>>
  /\ returned = <<>>
  /\ prc_child = None
  /\ nelem = 0
  /\ family_elem = Element(LevelElement("family", Absent, Absent), <<>>)
  /\ root = [vendor_index |-> <<>>, pdsc_index |-> <<>>]
  /\ chain = "First"
  /\ root_iter = <<>>
  /\ futs = <<>>
  /\ readyq = <<>>
  /\ flat_next = None
  /\ out = <<>>
  /\ ended = FALSE
  /\ vidx_out = <<>>
  /\ arrived = <<>>

\* Devices::from_elem meets the next child of <devices>; parse_family starts
OpenFamily ==
  /\ UNCHANGED <<crawl_vars, family_elem, returned>>
  /\ prc_child' = None
  /\ pc = "doc"
  /\ nelem < MaxElems
  /\ \E e \in FamilyElems : family_device' = DeviceBuilderFromElem(e)
  /\ all_devices' = <<>>
  /\ lin_all' = <<>>
  /\ built' = <<>>
  /\ add_this' = Ok(<<>>)
  /\ nelem' = nelem + 1
  /\ pc' = "family"
  /\ UNCHANGED <<devs, sub_family_device, device, devices, variants, lin_devices>>

\* a "memory" child of the level being walked; when MemElem::from_elem
\* panics the walk unwinds, and every local and the accumulator are dropped
MemoryChild ==
  /\ UNCHANGED <<crawl_vars, family_elem>>
  /\ prc_child' = None
  /\ pc \in Levels
  /\ nelem < MaxElems
  /\ \E e \in MemoryElems :
       IF MemElemPanics(e)
       THEN /\ pc' = "panicked"
            /\ devs' = Ok(EmptyMap)
            /\ family_device' = DeviceBuilderFromElem(LevelElement("family", Absent, Absent))
            /\ sub_family_device' = None
            /\ device' = None
            /\ all_devices' = <<>>
            /\ devices' = <<>>
            /\ variants' = <<>>
            /\ lin_all' = <<>>
            /\ lin_devices' = <<>>
            /\ returned' = <<>>
            /\ UNCHANGED nelem
       ELSE /\ SetLevelBuilder(
                 LET mem == ok_warn(MemElemFromElem(e))
                 IN IF mem.some THEN add_memory(LevelBuilder, mem.v) ELSE LevelBuilder)
            /\ pc' = pc
            /\ nelem' = nelem + 1
            /\ UNCHANGED <<devs, all_devices, devices, variants, lin_all, lin_devices,
                           returned>>
  /\ UNCHANGED <<add_this, built>>

\* an "algorithm" child of the level being walked
AlgorithmChild ==
  /\ UNCHANGED <<crawl_vars, family_elem, returned>>
  /\ prc_child' = None
  /\ pc \in Levels
  /\ nelem < MaxElems
  /\ \E e \in AlgorithmElems :
       SetLevelBuilder(
         LET alg == ok_warn(AlgorithmFromElem(e))
         IN IF alg.some THEN add_algorithm(LevelBuilder, alg.v) ELSE LevelBuilder)
  /\ nelem' = nelem + 1
  /\ UNCHANGED <<pc, devs, all_devices, devices, variants, add_this, built, lin_all,
                 lin_devices>>

\* a "processor" child of the level being walked
ProcessorChild ==
  /\ UNCHANGED <<crawl_vars, family_elem, returned>>
  /\ pc \in Levels
  /\ nelem < MaxElems
  /\ \E e \in ProcessorElems :
       /\ SetLevelBuilder(
            LET prc == ok_warn(ProcessorsBuilderFromElem(e))
            IN IF prc.some THEN add_processor(LevelBuilder, prc.v) ELSE LevelBuilder)
       /\ prc_child' = ok_warn(ProcessorsBuilderFromElem(e))
  /\ nelem' = nelem + 1
  /\ UNCHANGED <<pc, devs, all_devices, devices, variants, add_this, built, lin_all,
                 lin_devices>>

\* a child of any other name (for a family or a subFamily, a variant too)
OtherChild ==
  /\ UNCHANGED <<crawl_vars, family_elem, returned>>
  /\ prc_child' = None
  /\ pc \in Levels
  /\ nelem < MaxElems
  /\ nelem' = nelem + 1
  /\ UNCHANGED <<pc, devs, family_device, sub_family_device, device, all_devices,
                 devices, variants, add_this, built, lin_all, lin_devices>>

\* a "variant" child of a device
VariantChild ==
  /\ UNCHANGED <<crawl_vars, family_elem, returned>>
  /\ prc_child' = None
  /\ pc = "device"
  /\ nelem < MaxElems
  /\ \E e \in VariantElems : variants' = Append(variants, DeviceBuilderFromElem(e))
  /\ nelem' = nelem + 1
  /\ UNCHANGED <<pc, devs, family_device, sub_family_device, device, all_devices,
                 devices, add_this, built, lin_all, lin_devices>>

\* a "subFamily" child of a family: parse_sub_family starts
OpenSubFamily ==
  /\ UNCHANGED <<crawl_vars, family_elem, returned>>
  /\ prc_child' = None
  /\ pc = "family"
  /\ nelem < MaxElems
  /\ \E e \in SubFamilyElems : sub_family_device' = Some(DeviceBuilderFromElem(e))
  /\ devices' = <<>>
  /\ lin_devices' = <<>>
  /\ nelem' = nelem + 1
  /\ pc' = "subFamily"
  /\ UNCHANGED <<devs, family_device, device, all_devices, variants, add_this,
                 built, lin_all>>

\* a "device" child of a family or of a subFamily: parse_device starts
OpenDevice ==
  /\ UNCHANGED <<crawl_vars, family_elem, returned>>
  /\ prc_child' = None
  /\ pc \in {"family", "subFamily"}
  /\ nelem < MaxElems
  /\ \E e \in DeviceElems : device' = Some(DeviceBuilderFromElem(e))
  /\ variants' = <<>>
  /\ nelem' = nelem + 1
  /\ pc' = "device"
  /\ UNCHANGED <<devs, family_device, sub_family_device, all_devices, devices,
                 add_this, built, lin_all, lin_devices>>

\* parse_device has met its last child and returns its builders to the
\* flat_map of the enclosing level
CloseDevice ==
  /\ UNCHANGED <<crawl_vars, family_elem, returned>>
  /\ prc_child' = None
  /\ pc = "device"
  /\ LET ret == IF variants = <<>> THEN <<device.v>>
                ELSE AddParentAll(variants, device.v)
         lin == IF variants = <<>> THEN <<(<<device.v>>)>>
                ELSE KeptLineage(variants, [i \in DOMAIN variants |-> <<variants[i]>>],
                                 device.v)
     IN IF sub_family_device.some
        THEN /\ devices' = devices \o ret
             /\ lin_devices' = lin_devices \o lin
             /\ pc' = "subFamily"
             /\ UNCHANGED <<all_devices, lin_all>>
        ELSE /\ all_devices' = all_devices \o ret
             /\ lin_all' = lin_all \o lin
             /\ pc' = "family"
             /\ UNCHANGED <<devices, lin_devices>>
  /\ device' = None
  /\ variants' = <<>>
  /\ UNCHANGED <<devs, family_device, sub_family_device, add_this, built, nelem>>

\* parse_sub_family has met its last child and returns its builders
CloseSubFamily ==
  /\ UNCHANGED <<crawl_vars, family_elem, returned>>
  /\ prc_child' = None
  /\ pc = "subFamily"
  /\ all_devices' = all_devices \o AddParentAll(devices, sub_family_device.v)
  /\ lin_all' = lin_all \o KeptLineage(devices, lin_devices, sub_family_device.v)
  /\ sub_family_device' = None
  /\ devices' = <<>>
  /\ lin_devices' = <<>>
  /\ pc' = "family"
  /\ UNCHANGED <<devs, family_device, device, variants, add_this, built, nelem>>

\* bldr.add_parent(&family_device).and_then(|dev| dev.build())
BuildLeaf(bldr, parent) ==
  LET merged == add_parent(bldr, parent)
  IN IF merged.ok THEN DeviceBuilderBuild(merged.v) ELSE merged

\* the index of the first Err of a sequence of Results, 0 when all are Ok
FirstErr(rs) ==
  IF \E i \in DOMAIN rs : ~rs[i].ok
  THEN CHOOSE i \in DOMAIN rs : ~rs[i].ok /\ \A j \in 1..(i - 1) : rs[j].ok
  ELSE 0

\* Iterator::collect::<Result<Vec<_>, _>>() stops at the first Err
CollectResult(rs) ==
  IF FirstErr(rs) = 0 THEN Ok([i \in DOMAIN rs |-> rs[i].v])
  ELSE Err(rs[FirstErr(rs)].e)

\* a mutant of ExtendByName: an entry already there is kept
RECURSIVE ExtendByNameKeepFirst(_, _)
ExtendByNameKeepFirst(map, ds) ==
  IF ds = <<>> THEN map
  ELSE ExtendByNameKeepFirst(
         IF Head(ds).name \in DOMAIN map THEN map
         ELSE MapInsert(map, Head(ds).name, Head(ds)),
         Tail(ds))

\* devs.extend(add_this.into_iter().map(|dev| (dev.name.clone(), dev)))
RECURSIVE ExtendByName(_, _)
ExtendByName(map, ds) ==
  IF ds = <<>> THEN map
  ELSE ExtendByName(MapInsert(map, Head(ds).name, Head(ds)), Tail(ds))

\* a mutant of FoldFamily: the error of the last failing family is kept
FoldFamilyLastErr(res, family) ==
  IF family.ok
  THEN IF res.ok THEN Ok(ExtendByName(res.v, family.v)) ELSE res
  ELSE Err(family.e)

\* the closure of the fold of Devices::from_elem
FoldFamily(res, family) ==
  IF res.ok
  THEN IF family.ok THEN Ok(ExtendByName(res.v, family.v)) ELSE Err(family.e)
  ELSE res

\* parse_family has met its last child: every builder is merged with the
\* family's and built, and the fold of Devices::from_elem takes the Result
CloseFamily ==
  /\ UNCHANGED <<crawl_vars, family_elem>>
  /\ prc_child' = None
  /\ pc = "family"
  /\ LET rs == [i \in DOMAIN all_devices |-> BuildLeaf(all_devices[i], family_device)]
         n == IF FirstErr(rs) = 0 THEN Len(rs) ELSE FirstErr(rs)
     IN /\ built' = SubSeq(rs, 1, n)
        /\ add_this' = CollectResult(rs)
        /\ devs' = FoldFamily(devs, CollectResult(rs))
        /\ returned' = Append(returned, CollectResult(rs))
  /\ pc' = "doc"
  /\ UNCHANGED <<family_device, sub_family_device, device, all_devices, devices,
                 variants, lin_all, lin_devices, nelem>>

\* <devices> has no more children: Devices::from_elem returns devs
Finish ==
  /\ UNCHANGED <<crawl_vars, family_elem, returned>>
  /\ prc_child' = None
  /\ pc = "doc"
  /\ pc' = "done"
  /\ UNCHANGED <<devs, family_device, sub_family_device, device, all_devices,
                 devices, variants, add_this, built, lin_all, lin_devices, nelem>>

PdscNext ==
  \/ OpenFamily
  \/ MemoryChild
  \/ AlgorithmChild
  \/ ProcessorChild
  \/ OtherChild
  \/ VariantChild
  \/ OpenSubFamily
  \/ OpenDevice
  \/ CloseDevice
  \/ CloseSubFamily
  \/ CloseFamily
  \/ Finish

(***************************************************************************)
(* Devices::from_elem over a document of element trees: parse_family,      *)
(* parse_sub_family and parse_device as functions of the element they are  *)
(* called on.  None of the trees below holds a memory on which             *)
(* MemElem::from_elem panics.                                              *)
(***************************************************************************)
RECURSIVE Concat(_)
Concat(ss) == IF ss = <<>> THEN <<>> ELSE Head(ss) \o Concat(Tail(ss))

\* the arms "memory", "algorithm" and "processor" of the three walks, and
\* the arm of the names a walk does not know
AddChild(bldr, child) ==
  CASE child.tag = "memory" ->
         LET mem == ok_warn(MemElemFromElem(child))
         IN IF mem.some THEN add_memory(bldr, mem.v) ELSE bldr
    [] child.tag = "algorithm" ->
         LET alg == ok_warn(AlgorithmFromElem(child))
         IN IF alg.some THEN add_algorithm(bldr, alg.v) ELSE bldr
    [] child.tag = "processor" ->
         LET prc == ok_warn(ProcessorsBuilderFromElem(child))
         IN IF prc.some THEN add_processor(bldr, prc.v) ELSE bldr
    [] OTHER -> bldr

\* the level builder once e.children() has been walked
RECURSIVE WalkLevel(_, _)
WalkLevel(bldr, children) ==
  IF children = <<>> THEN bldr
  ELSE WalkLevel(AddChild(bldr, Head(children)), Tail(children))

parse_device(e) ==
  LET dev_bldr == WalkLevel(DeviceBuilderFromElem(e), e.children)
      IsVariant(child) == child.tag = "variant"
      vs == SelectSeq(e.children, IsVariant)
      var_bldrs == [i \in DOMAIN vs |-> DeviceBuilderFromElem(vs[i])]
  IN IF var_bldrs = <<>> THEN <<dev_bldr>> ELSE AddParentAll(var_bldrs, dev_bldr)

parse_sub_family(e) ==
  LET sub_bldr == WalkLevel(DeviceBuilderFromElem(e), e.children)
      dev_bldrs == Concat([i \in DOMAIN e.children |->
                             IF e.children[i].tag = "device"
                             THEN parse_device(e.children[i]) ELSE <<>>])
  IN AddParentAll(dev_bldrs, sub_bldr)

\* parse_family as it would be if add_parent were applied while the walk is
\* under way: each child builder gets the family builder as it stands when
\* its element is met
parse_familyAddParentDuringWalk(e) ==
  LET so_far(i) == WalkLevel(DeviceBuilderFromElem(e), SubSeq(e.children, 1, i - 1))
      Leaves(i, bldrs) == [k \in DOMAIN bldrs |-> BuildLeaf(bldrs[k], so_far(i))]
  IN CollectResult(Concat([i \in DOMAIN e.children |->
                             CASE e.children[i].tag = "subFamily" ->
                                    Leaves(i, parse_sub_family(e.children[i]))
                               [] e.children[i].tag = "device" ->
                                    Leaves(i, parse_device(e.children[i]))
                               [] OTHER -> <<>>]))

parse_family(e) ==
  LET family_dev == WalkLevel(DeviceBuilderFromElem(e), e.children)
      all_devs == Concat([i \in DOMAIN e.children |->
                            CASE e.children[i].tag = "subFamily" ->
                                   parse_sub_family(e.children[i])
                              [] e.children[i].tag = "device" ->
                                   parse_device(e.children[i])
                              [] OTHER -> <<>>])
  IN CollectResult([i \in DOMAIN all_devs |-> BuildLeaf(all_devs[i], family_dev)])

\* the element trees a family is made of
VarV1Rom == Element(LevelElement("variant", Absent, "V1"), <<MemIROM1>>)
VarV2 == Element(LevelElement("variant", Absent, "V2"), <<>>)
DevD1 == Element(LevelElement("device", "D1", Absent), <<MemIRAM1>>)
DevD1Big == Element(LevelElement("device", "D1", Absent), <<MemIRAM1Big, AlgC>>)
DevD3Variants == Element(LevelElement("device", "D3", Absent), <<VarV1Rom, VarV2>>)
\* <device Dname=""/>
DevEmptyName == Element(LevelElement("device", "", Absent), <<>>)
FamilyChildren == {DevD1, DevD1Big, DevD3Variants, DevEmptyName, PrcM4Fpu, AlgA}

\* the sequences of n children, for every n a family of the document can have
RECURSIVE SeqsOfLen(_, _)
SeqsOfLen(S, n) ==
  IF n = 0 THEN {<<>>}
  ELSE {Append(q, x) : q \in SeqsOfLen(S, n - 1), x \in S}

ChildrenSeqs == [n \in 0..(MaxTopElems - 1) |-> SeqsOfLen(FamilyChildren, n)]

\* the fold of Devices::from_elem takes the next child of <devices>
ParseFamily ==
  /\ UNCHANGED crawl_vars
  /\ pc = "doc"
  /\ nelem < MaxTopElems
  /\ \E n \in 0..(MaxTopElems - nelem - 1) : \E cs \in ChildrenSeqs[n] :
       LET c == Element(LevelElement("family", Absent, Absent), cs)
       IN \E ret \in {parse_family(c)} :
            /\ nelem' = nelem + 1 + n
            /\ family_elem' = c
            /\ add_this' = ret
            /\ devs' = FoldFamily(devs, ret)
            /\ returned' = Append(returned, ret)
  /\ UNCHANGED <<pc, family_device, sub_family_device, device, all_devices, devices,
                 variants, built, lin_all, lin_devices, prc_child>>

TreeNext == ParseFamily \/ Finish

(***************************************************************************)
(* The crawler: the stream flatmap_pdscs returns, polled by its consumer   *)
(* while the PIDX fetches complete.  The combinators are those of          *)
(* futures 0.1: futures_unordered, filter_map, flatten, chain.             *)
(***************************************************************************)
Vendors == <<"Acme", "Beta", "Gamma", "Delta">>
PidxUrls == {"http://x/", "not a uri"}

\* the k-th <pdsc> of the index document that vendor publishes
PdscRefOf(vendor, k) ==
  [vendor |-> vendor, name |-> k, version |-> "1.0.0", url |-> "http://x/pack/"]

PdscIndex(vendor, n) == [k \in 1..n |-> PdscRefOf(vendor, k)]

\* format!("{}{}.pidx", url, vendor), as the sequence of its parts
into_uri(pidx) == <<pidx.url, pidx.vendor, ".pidx">>

\* str::parse::<Uri>() on the uris above
UriParse(uri) == IF uri[1] = "http://x/" THEN Ok(uri) ELSE Err("invalid uri")

RootVidxs ==
  {[vendor_index |-> [i \in 1..n |-> [url |-> u[i], vendor |-> Vendors[i]]],
    pdsc_index |-> PdscIndex("root", m)] :
     <<n, u, m>> \in {<<n, u, m>> \in (0..MaxPidx) \X [1..MaxPidx -> PidxUrls] \X (0..MaxRefs) :
                        \A i \in (n + 1)..MaxPidx : u[i] = "http://x/"}}

\* what a fetch can end with: a transport error, or a body that parse_vidx
\* turns into Err (not a VIDX document) or into Ok(Vidx)
Responses(vendor) ==
  {[transport |-> TRUE]}
  \cup {[transport |-> FALSE, parsed |-> Err("not a vidx")]}
  \cup {[transport |-> FALSE,
         parsed |-> Ok([vendor_index |-> <<>>, pdsc_index |-> PdscIndex(vendor, n)])] :
          n \in 0..MaxRefs}

\* flatmap_pdscs has returned its stream; no document is being parsed
CrawlInit ==
  /\ root \in RootVidxs
  /\ chain = "First"
  /\ root_iter = root.pdsc_index
  /\ futs = [i \in DOMAIN root.vendor_index |->
               [uri |-> into_uri(root.vendor_index[i]), st |-> "new",
                res |-> [transport |-> TRUE]]]
  /\ readyq = [i \in DOMAIN root.vendor_index |-> i]
  /\ flat_next = None
  /\ out = <<>>
  /\ ended = FALSE
  /\ vidx_out = <<>>
  /\ arrived = <<>>
  /\ pc = "doc"
  /\ devs = Ok(EmptyMap)
  /\ family_device = DeviceBuilderFromElem(LevelElement("family", Absent, Absent))
  /\ sub_family_device = None
  /\ device = None
  /\ all_devices = <<>>
  /\ devices = <<>>
  /\ variants = <<>>
  /\ add_this = Ok(<<>>)
  /\ built = <<>>
  /\ lin_all = <<>>
  /\ lin_devices = <<>>
  /\ returned = <<>>
  /\ prc_child = None
  /\ nelem = 0
  /\ family_elem = Element(LevelElement("family", Absent, Absent), <<>>)

\* The three layers of job, each on a record st of the fields futs, readyq,
\* flat_next, vidx_out, and returning st with the outcome of the poll in ret:
\*   [t |-> "NotReady"], [t |-> "End"], [t |-> "Err", e |-> _], [t |-> "Item", v |-> _]
\* A hyper::Error is of kind "Uri" (the uri does not parse) or "Io" (the
\* transport failed).

\* F(x), the value of x taken once and bound, as a let does
Once(x, F(_)) == CHOOSE y \in {F(v) : v \in {x}} : TRUE

\* a mutant of FuturesUnorderedPoll: a future's error ends the stream
RECURSIVE FuturesUnorderedPollFused(_)
FuturesUnorderedPollFused(st) ==
  IF st.readyq = <<>>
  THEN [st EXCEPT !.ret = IF \A i \in DOMAIN st.futs : st.futs[i].st = "gone"
                          THEN [t |-> "End"] ELSE [t |-> "NotReady"]]
  ELSE LET i == Head(st.readyq)
           f == st.futs[i]
           gone == [st EXCEPT !.readyq = Tail(st.readyq), !.futs[i].st = "gone"]
           dead == [st EXCEPT !.readyq = <<>>,
                              !.futs = [j \in DOMAIN st.futs |->
                                          [st.futs[j] EXCEPT !.st = "gone"]]]
       IN IF f.st = "new"
          THEN IF UriParse(f.uri).ok
               THEN FuturesUnorderedPollFused(
                      [st EXCEPT !.readyq = Tail(st.readyq), !.futs[i].st = "inflight"])
               ELSE [dead EXCEPT !.ret = [t |-> "Err", e |-> [kind |-> "Uri", uri |-> f.uri]],
                                 !.vidx_out = Append(st.vidx_out, [fut |-> i, err |-> TRUE])]
          ELSE IF f.res.transport
               THEN [dead EXCEPT !.ret = [t |-> "Err", e |-> [kind |-> "Io", uri |-> f.uri]],
                                 !.vidx_out = Append(st.vidx_out, [fut |-> i, err |-> TRUE])]
               ELSE [gone EXCEPT !.ret = [t |-> "Item", v |-> f.res.parsed],
                                 !.vidx_out = Append(st.vidx_out,
                                                [fut |-> i, err |-> FALSE, item |-> f.res.parsed])]

\* FuturesUnordered::poll: the futures of the readiness queue are polled in
\* turn; download_vidx parses its uri and sends the request at its first
\* poll, and resolves at the poll after its response has arrived
RECURSIVE FuturesUnorderedPoll(_)
FuturesUnorderedPoll(st) ==
  IF st.readyq = <<>>
  THEN [st EXCEPT !.ret = IF \A i \in DOMAIN st.futs : st.futs[i].st = "gone"
                          THEN [t |-> "End"] ELSE [t |-> "NotReady"]]
  ELSE LET i == Head(st.readyq)
           f == st.futs[i]
           gone == [st EXCEPT !.readyq = Tail(st.readyq), !.futs[i].st = "gone"]
       IN IF f.st = "new"
          THEN IF UriParse(f.uri).ok
               THEN FuturesUnorderedPoll(
                      [st EXCEPT !.readyq = Tail(st.readyq), !.futs[i].st = "inflight"])
               ELSE [gone EXCEPT !.ret = [t |-> "Err", e |-> [kind |-> "Uri", uri |-> f.uri]],
                                 !.vidx_out = Append(st.vidx_out, [fut |-> i, err |-> TRUE])]
          ELSE IF f.res.transport
               THEN [gone EXCEPT !.ret = [t |-> "Err", e |-> [kind |-> "Io", uri |-> f.uri]],
                                 !.vidx_out = Append(st.vidx_out, [fut |-> i, err |-> TRUE])]
               ELSE [gone EXCEPT !.ret = [t |-> "Item", v |-> f.res.parsed],
                                 !.vidx_out = Append(st.vidx_out,
                                                [fut |-> i, err |-> FALSE, item |-> f.res.parsed])]

\* a mutant of FilterMapPoll: the stream ends at the first Err(_) item
FilterMapPollEndsAtErr(st) ==
  Once(FuturesUnorderedPoll(st),
       LAMBDA r :
         IF r.ret.t = "Item"
         THEN IF r.ret.v.ok
              THEN [r EXCEPT !.ret = [t |-> "Item", v |-> r.ret.v.v.pdsc_index]]
              ELSE [r EXCEPT !.ret = [t |-> "End"]]
         ELSE r)

\* FilterMap::poll with the closure of flatmap_pdscs: Ok(v) becomes the
\* stream of v.pdsc_index, Err(_) is dropped and the next item is drawn
RECURSIVE FilterMapPoll(_)
FilterMapPoll(st) ==
  Once(FuturesUnorderedPoll(st),
       LAMBDA r :
         IF r.ret.t = "Item"
         THEN IF r.ret.v.ok
              THEN [r EXCEPT !.ret = [t |-> "Item", v |-> r.ret.v.v.pdsc_index]]
              ELSE FilterMapPoll(r)
         ELSE r)

\* a mutant of FlattenPoll: the inner stream is drawn from its end
RECURSIVE FlattenPollFromEnd(_)
FlattenPollFromEnd(st) ==
  IF ~st.flat_next.some
  THEN LET r == FilterMapPoll(st)
       IN IF r.ret.t = "Item"
          THEN FlattenPollFromEnd([r EXCEPT !.flat_next = Some(r.ret.v)])
          ELSE r
  ELSE IF st.flat_next.v = <<>>
       THEN FlattenPollFromEnd([st EXCEPT !.flat_next = None])
       ELSE LET n == Len(st.flat_next.v)
            IN [st EXCEPT !.flat_next = Some(SubSeq(st.flat_next.v, 1, n - 1)),
                          !.ret = [t |-> "Item", v |-> st.flat_next.v[n]]]

\* Flatten::poll: the inner stream is drawn to its end before the next one
\* is asked of the outer stream
RECURSIVE FlattenPoll(_)
FlattenPoll(st) ==
  IF ~st.flat_next.some
  THEN Once(FilterMapPoll(st),
            LAMBDA r :
              IF r.ret.t = "Item"
              THEN Once([r EXCEPT !.flat_next = Some(r.ret.v)], LAMBDA s : FlattenPoll(s))
              ELSE r)
  ELSE IF st.flat_next.v = <<>>
       THEN FlattenPoll([st EXCEPT !.flat_next = None])
       ELSE [st EXCEPT !.flat_next = Some(Tail(st.flat_next.v)),
                       !.ret = [t |-> "Item", v |-> Head(st.flat_next.v)]]

JobState ==
  [futs |-> futs, readyq |-> readyq, flat_next |-> flat_next, vidx_out |-> vidx_out,
   ret |-> [t |-> "NotReady"]]

\* the consumer polls the stream once: Chain::poll
Poll ==
  /\ UNCHANGED <<pdsc_vars, family_elem>>
  /\ ~ended
  /\ IF chain = "First" /\ root_iter # <<>>
     THEN /\ out' = Append(out, Ok(Head(root_iter)))
          /\ root_iter' = Tail(root_iter)
          /\ UNCHANGED <<chain, futs, readyq, flat_next, ended, vidx_out>>
     ELSE \E r \in {FlattenPoll(JobState)} :
             /\ chain' = "Second"
             /\ futs' = r.futs
             /\ readyq' = r.readyq
             /\ flat_next' = r.flat_next
             /\ vidx_out' = r.vidx_out
             /\ out' = CASE r.ret.t = "Item" -> Append(out, Ok(r.ret.v))
                         [] r.ret.t = "Err" -> Append(out, Err(r.ret.e))
                         [] OTHER -> out
             /\ ended' = (r.ret.t = "End")
             /\ UNCHANGED root_iter
  /\ UNCHANGED <<root, arrived>>

\* the response of a fetch in flight arrives (or the fetch fails): the
\* future's task is notified, which puts it on the readiness queue
Respond ==
  /\ UNCHANGED <<pdsc_vars, family_elem>>
  /\ \E i \in DOMAIN futs :
       /\ futs[i].st = "inflight"
       /\ \E r \in Responses(root.vendor_index[i].vendor) :
            futs' = [futs EXCEPT ![i].st = "woken", ![i].res = r]
       /\ readyq' = Append(readyq, i)
       /\ arrived' = Append(arrived, i)
  /\ UNCHANGED <<root, chain, root_iter, flat_next, out, ended, vidx_out>>

CrawlNext == Poll \/ Respond

vars == <<pdsc_vars, crawl_vars, family_elem>>

SpecPdsc == PdscInit /\ [][PdscNext]_vars
SpecCrawl == CrawlInit /\ [][CrawlNext]_vars
SpecTree == PdscInit /\ [][TreeNext]_vars

\* the crawl with its scheduling: the consumer polls the stream again whenever
\* a poll can make progress, and every fetch in flight gets its response
SpecCrawlLive ==
  CrawlInit /\ [][CrawlNext]_vars /\ WF_vars(Poll) /\ WF_vars(Respond)

(***************************************************************************)
(* The claims on the device-tree parser (checked under SpecPdsc)           *)
(***************************************************************************)
\* parse_family has returned: all_devices, lin_all, family_device, built and
\* add_this are those of the family parsed last, devs has taken its Result
FamilyReturned == pc \in {"doc", "done"} /\ nelem > 0

\* the level builders folded into the i-th leaf, the leaf's own level first,
\* the family's last
LevelsOf(i) == Append(lin_all[i], family_device)

Reverse(ss) == [i \in DOMAIN ss |-> ss[Len(ss) + 1 - i]]

AlgorithmsOf(ls) == [j \in DOMAIN ls |-> ls[j].algorithms]

\* C1 (as amended): the algorithms of every built Device are the algorithms
\* its own level declares followed by those of each ancestor level, the
\* nearest first (child entries, then parent entries), duplicates kept
C1_AlgorithmsChildThenParent ==
  FamilyReturned =>
    \A i \in DOMAIN built :
      built[i].ok => built[i].v.algorithms = Concat(AlgorithmsOf(LevelsOf(i)))

\* C1 as stated: the parent's algorithms followed by the child's
C1_AlgorithmsParentThenChild ==
  FamilyReturned =>
    \A i \in DOMAIN built :
      built[i].ok => built[i].v.algorithms = Concat(Reverse(AlgorithmsOf(LevelsOf(i))))

\* the family declares [A], a device [C], and the Device built has [C, A]
C1_Witness ==
  /\ FamilyReturned
  /\ family_device.algorithms = <<AlgorithmFromElem(AlgA).v>>
  /\ \E i \in DOMAIN built :
       /\ built[i].ok
       /\ lin_all[i][1].algorithms = <<AlgorithmFromElem(AlgC).v>>
       /\ built[i].v.algorithms = <<AlgorithmFromElem(AlgC).v, AlgorithmFromElem(AlgA).v>>

BothAsymmetric(i) ==
  /\ all_devices[i].processor.some
  /\ all_devices[i].processor.v.kind = "Asymmetric"
  /\ family_device.processor.some
  /\ family_device.processor.v.kind = "Asymmetric"

\* C2: when a leaf and its family both hold Asymmetric builders, the Device
\* built has the union of the Pnames, with the child's processor for every
\* Pname the child declares and the parent's for the others
C2_AsymmetricChildWins ==
  FamilyReturned =>
    \A i \in DOMAIN built :
      (BothAsymmetric(i) /\ built[i].ok) =>
        LET child == all_devices[i].processor.v.map
            parent == family_device.processor.v.map
            got == built[i].v.processor
        IN /\ got.kind = "Asymmetric"
           /\ DOMAIN got.map = DOMAIN child \cup DOMAIN parent
           /\ \A k \in DOMAIN got.map :
                got.map[k] = IF k \in DOMAIN child
                             THEN ProcessorBuilderBuild(child[k]).v
                             ELSE ProcessorBuilderBuild(parent[k]).v

\* C3: the memories of every built Device bind each region name declared at
\* any level of its chain, once, to the declaration of the level nearest the leaf
C3_MemoriesNearestLevelWins ==
  FamilyReturned =>
    \A i \in DOMAIN built :
      built[i].ok =>
        LET ls == LevelsOf(i)
            mem == built[i].v.memories
        IN /\ DOMAIN mem = UNION {DOMAIN ls[j].memories : j \in DOMAIN ls}
           /\ \A k \in DOMAIN mem :
                \E j \in DOMAIN ls :
                  /\ k \in DOMAIN ls[j].memories
                  /\ \A h \in 1..(j - 1) : k \notin DOMAIN ls[h].memories
                  /\ mem[k] = ls[j].memories[k]

\* IRAM1 is declared by the family and, with another size, by the device:
\* the Device built has the device's
C3_Witness ==
  /\ FamilyReturned
  /\ "IRAM1" \in DOMAIN family_device.memories
  /\ \E i \in DOMAIN built :
       /\ built[i].ok
       /\ "IRAM1" \in DOMAIN lin_all[i][1].memories
       /\ lin_all[i][1].memories["IRAM1"] # family_device.memories["IRAM1"]
       /\ built[i].v.memories["IRAM1"] = MemElemFromElem(MemIRAM1Big).v.mem

\* C5: every leaf of the family parsed last whose own merge and build
\* succeed is in the catalog, whatever its siblings do
C5_BuildFailureDropsOnlyThatDevice ==
  FamilyReturned =>
    \A i \in DOMAIN all_devices :
      LET r == BuildLeaf(all_devices[i], family_device)
      IN r.ok => devs.ok /\ r.v.name \in DOMAIN devs.v

SymmetryConflict(i) ==
  /\ all_devices[i].processor.some
  /\ family_device.processor.some
  /\ all_devices[i].processor.v.kind # family_device.processor.v.kind

\* C6: a leaf whose processor slot is Symmetric where the family's is
\* Asymmetric (or vice versa) is left out of what parse_family returns, and
\* every other leaf that builds is in it
C6_MergeConflictDropsOnlyThatDevice ==
  FamilyReturned =>
    ((\E i \in DOMAIN all_devices : SymmetryConflict(i)) =>
       /\ add_this.ok
       /\ Len(add_this.v) =
            Cardinality({j \in DOMAIN all_devices :
                           BuildLeaf(all_devices[j], family_device).ok}))

\* C7: the walk of a level's children always completes
C7_WalkCompletes == pc # "panicked"

BothSymmetric(i) ==
  /\ all_devices[i].processor.some
  /\ all_devices[i].processor.v.kind = "Symmetric"
  /\ family_device.processor.some
  /\ family_device.processor.v.kind = "Symmetric"

\* C10: when a leaf and its family both hold Symmetric builders, each field
\* of the Processor built is the child's value if the child set it, otherwise
\* the parent's, otherwise the default (units 1, fpu None, mpu NotPresent);
\* the build fails exactly when neither set the core
C10_SymmetricFieldwise ==
  FamilyReturned =>
    \A i \in DOMAIN built :
      BothSymmetric(i) =>
        LET c == all_devices[i].processor.v.p
            p == family_device.processor.v.p
            pick(cf, pf, d) == IF cf.some THEN cf.v ELSE IF pf.some THEN pf.v ELSE d
        IN IF c.core.some \/ p.core.some
           THEN all_devices[i].name.some =>
                  /\ built[i].ok
                  /\ built[i].v.processor =
                       Symmetric([core |-> pick(c.core, p.core, "none"),
                                  units |-> pick(c.units, p.units, 1),
                                  fpu |-> pick(c.fpu, p.fpu, "FpuNone"),
                                  mpu |-> pick(c.mpu, p.mpu, "NotPresent")])
           ELSE ~built[i].ok

\* S3: the family has Dcore=Cortex-M4 Dfpu=SP_FPU, the device Dmpu=MPU
C10_Witness ==
  /\ FamilyReturned
  /\ family_device.processor = Some(ProcessorsBuilderFromElem(PrcM4Fpu).v)
  /\ \E i \in DOMAIN built :
       /\ all_devices[i].processor = Some(ProcessorsBuilderFromElem(PrcMpu).v)
       /\ built[i].ok
       /\ built[i].v.processor =
            Symmetric([core |-> "CortexM4", units |-> 1,
                       fpu |-> "SinglePrecision", mpu |-> "Present"])

(***************************************************************************)
(* The claims on the crawler (checked under SpecCrawl)                     *)
(***************************************************************************)
\* the positions of out, resp. vidx_out, that satisfy a condition
Emitted(ref) == {p \in DOMAIN out : out[p] = Ok(ref)}
YieldsOf(i) == {p \in DOMAIN vidx_out : vidx_out[p].fut = i}
ArrivalOf(i) == {a \in DOMAIN arrived : arrived[a] = i}

\* the fetch of the i-th Pidx has been yielded as Ok(Vidx)
Parsed(i) ==
  \E p \in YieldsOf(i) : ~vidx_out[p].err /\ vidx_out[p].item.ok

\* C4: a PIDX that fails to fetch (a transport error) or to parse puts
\* neither an element nor an error on the stream of flatmap_pdscs, and when
\* the stream ends every PdscRef of the root and of every PIDX fetched and
\* parsed has been emitted
C4_FailedPidxIsSilent ==
  /\ \A p \in DOMAIN out : out[p].ok \/ out[p].e.kind # "Io"
  /\ ended =>
       /\ \A k \in DOMAIN root.pdsc_index : Emitted(root.pdsc_index[k]) # {}
       /\ \A i \in DOMAIN futs :
            Parsed(i) =>
              \A p \in YieldsOf(i) :
                \A k \in DOMAIN vidx_out[p].item.v.pdsc_index :
                  Emitted(vidx_out[p].item.v.pdsc_index[k]) # {}

\* C8: the stream of download_vidx_list yields at most one outcome per URL,
\* the outcome of that URL's fetch, in the order the responses arrived; when
\* it ends it has yielded exactly one outcome for each of the N URLs, a
\* transport failure among them or not
C8_OneOutcomePerUrl ==
  /\ \A i \in DOMAIN futs : Cardinality(YieldsOf(i)) <= 1
  /\ \A p \in DOMAIN vidx_out :
       LET f == futs[vidx_out[p].fut]
       IN /\ f.st = "gone"
          /\ vidx_out[p].err = (~UriParse(f.uri).ok \/ f.res.transport)
          /\ ~vidx_out[p].err => vidx_out[p].item = f.res.parsed
  /\ \A a, b \in DOMAIN arrived :
       (a < b /\ YieldsOf(arrived[b]) # {}) =>
         \E p \in YieldsOf(arrived[a]) : \A q \in YieldsOf(arrived[b]) : p < q
  /\ ended =>
       /\ Len(vidx_out) = Len(root.vendor_index)
       /\ \A i \in DOMAIN root.vendor_index : Cardinality(YieldsOf(i)) = 1

\* two URLs, the stream has ended: the fetch that arrived first failed in
\* transport, the other one was yielded after it as Ok(Vidx)
C8_Witness ==
  /\ ended
  /\ Len(root.vendor_index) = 2
  /\ Len(arrived) = 2
  /\ futs[arrived[1]].res.transport
  /\ Len(vidx_out) = 2
  /\ vidx_out[1].err
  /\ ~vidx_out[2].err
  /\ vidx_out[2].item.ok

\* the index of a vendor's Pidx in root.vendor_index, 0 for the root itself
PidxOf(vendor) ==
  IF vendor = "root" THEN 0 ELSE CHOOSE i \in DOMAIN Vendors : Vendors[i] = vendor

\* C9: the stream of flatmap_pdscs starts with the PdscRefs of the root, in
\* document order, and nothing else comes before the last of them; the
\* PdscRefs of one PIDX come in that document's order; and the PdscRefs of
\* a PIDX whose response arrived earlier come before those of one that
\* arrived later
C9_RootFirstThenCompletionOrder ==
  /\ \A p \in DOMAIN out :
       IF p <= Len(root.pdsc_index)
       THEN out[p] = Ok(root.pdsc_index[p])
       ELSE out[p].ok => out[p].v.vendor # "root"
  /\ \A p, q \in DOMAIN out :
       (p < q /\ out[p].ok /\ out[q].ok /\ out[p].v.vendor = out[q].v.vendor) =>
         out[p].v.name < out[q].v.name
  /\ \A p, q \in DOMAIN out :
       (/\ out[p].ok /\ out[q].ok
        /\ out[p].v.vendor # "root" /\ out[q].v.vendor # "root"
        /\ \E a \in ArrivalOf(PidxOf(out[p].v.vendor)) :
             \E b \in ArrivalOf(PidxOf(out[q].v.vendor)) : a < b)
       => p < q

\* one root PdscRef, then the two of the second Pidx, whose response arrived
\* first, then one of the first Pidx
C9_Witness ==
  /\ Len(root.pdsc_index) = 1
  /\ arrived = <<2, 1>>
  /\ Len(out) = 4
  /\ out[1] = Ok(PdscRefOf("root", 1))
  /\ out[2] = Ok(PdscRefOf(Vendors[2], 1))
  /\ out[3] = Ok(PdscRefOf(Vendors[2], 2))
  /\ out[4] = Ok(PdscRefOf(Vendors[1], 1))

(***************************************************************************)
(* The claims on the catalog assembler                                     *)
(***************************************************************************)
\* every Device parse_family has returned so far, in document order
ReturnedDevices ==
  Concat([i \in DOMAIN returned |-> IF returned[i].ok THEN returned[i].v ELSE <<>>])

\* C11: the catalog has exactly one entry for each name among the Devices
\* the families returned, and under a name it holds the Device that comes
\* last in document order, of the same family or of another
C11_LastInDocumentOrderWins ==
  devs.ok =>
    LET all == ReturnedDevices
    IN /\ DOMAIN devs.v = {all[i].name : i \in DOMAIN all}
       /\ \A i \in DOMAIN all :
            (\A j \in (i + 1)..Len(all) : all[j].name # all[i].name)
              => devs.v[all[i].name] = all[i]

\* two families, each returns a Device of the same name with other
\* memories: the catalog returned holds the second family's
C11_Witness ==
  /\ pc = "done"
  /\ Len(returned) = 2
  /\ returned[1].ok /\ returned[2].ok
  /\ devs.ok
  /\ \E i \in DOMAIN returned[1].v : \E j \in DOMAIN returned[2].v :
       /\ returned[1].v[i].name = returned[2].v[j].name
       /\ returned[1].v[i] # returned[2].v[j]
       /\ \A k \in (j + 1)..Len(returned[2].v) :
            returned[2].v[k].name # returned[2].v[j].name
       /\ devs.v[returned[1].v[i].name] = returned[2].v[j]

\* C12: when a family has returned an error, Devices::from_elem returns the
\* error of the first family that failed, whatever the later families returned
C12_FirstFamilyErrorReturned ==
  pc = "done" =>
    \A i \in DOMAIN returned :
      (~returned[i].ok /\ \A j \in 1..(i - 1) : returned[j].ok)
        => devs = Err(returned[i].e)

\* the first family fails, the second fails with another error: the error
\* returned is the first family's
C12_Witness ==
  /\ pc = "done"
  /\ Len(returned) = 2
  /\ ~returned[1].ok
  /\ ~returned[2].ok
  /\ returned[1].e # returned[2].e
  /\ devs = Err(returned[1].e)

\* the values <Core as FromStr>::from_str resolves to
CoreNames ==
  {"CortexM0", "CortexM0Plus", "CortexM1", "CortexM3", "CortexM4", "CortexM7",
   "CortexM23", "CortexM33", "SC000", "SC300", "ARMV8MBL", "ARMV8MML",
   "CortexR4", "CortexR5", "CortexR7", "CortexR8", "CortexA5", "CortexA7",
   "CortexA8", "CortexA9", "CortexA15", "CortexA17", "CortexA32", "CortexA35",
   "CortexA53", "CortexA57", "CortexA72", "CortexA73"}

\* the processor of a Device is Symmetric, or Asymmetric with at least one
\* entry, and every Processor in it has a resolved Core
ProcessorsWellFormed(prc) ==
  IF prc.kind = "Symmetric" THEN prc.p.core \in CoreNames
  ELSE /\ DOMAIN prc.map # {}
       /\ \A k \in DOMAIN prc.map : prc.map[k].core \in CoreNames

\* C13: every Device of a catalog Devices::from_elem returns has a
\* non-empty name and a well-formed processor
C13_DevicesWellFormed ==
  (pc = "done" /\ devs.ok) =>
    \A n \in DOMAIN devs.v :
      /\ devs.v[n].name # ""
      /\ ProcessorsWellFormed(devs.v[n].processor)

\* the part of C13 that is about the processor alone
C13_ProcessorsWellFormed ==
  (pc = "done" /\ devs.ok) =>
    \A n \in DOMAIN devs.v : ProcessorsWellFormed(devs.v[n].processor)

(***************************************************************************)
(* The claims that compare documents (checked under SpecTree)              *)
(***************************************************************************)
EmptySubFamily(children) == Element(LevelElement("subFamily", Absent, Absent), children)

\* the family e with every device child wrapped in a subFamily of its own
WrapEachDevice(e) ==
  Element(e, [i \in DOMAIN e.children |->
                IF e.children[i].tag = "device"
                THEN EmptySubFamily(<<e.children[i]>>) ELSE e.children[i]])

\* the family e with all its device children moved into one subFamily that
\* stands where the first of them stood
WrapAllDevices(e) ==
  LET IsDevice(c) == c.tag = "device"
      IsOther(c) == c.tag # "device"
      first == CHOOSE i \in DOMAIN e.children :
                 IsDevice(e.children[i]) /\ \A j \in 1..(i - 1) : ~IsDevice(e.children[j])
  IN IF SelectSeq(e.children, IsDevice) = <<>> THEN e
     ELSE Element(e, SubSeq(e.children, 1, first - 1)
                     \o <<EmptySubFamily(SelectSeq(e.children, IsDevice))>>
                     \o SelectSeq(SubSeq(e.children, first + 1, Len(e.children)), IsOther))

\* C14: parse_family returns the same Result (the same Devices: name,
\* memories, algorithms, processor, in the same order) for a family and for
\* that family with its device elements wrapped in a subFamily that has no
\* memory, algorithm or processor child
C14_EmptySubFamilyIsTransparent ==
  /\ parse_family(WrapEachDevice(family_elem)) = add_this
  /\ parse_family(WrapAllDevices(family_elem)) = add_this

\* a family with an algorithm, a processor and two devices, one with a
\* memory and an algorithm of its own: wrapped or not, two Devices
C14_Witness ==
  /\ \E i \in DOMAIN family_elem.children : family_elem.children[i] = DevD1Big
  /\ \E i \in DOMAIN family_elem.children : family_elem.children[i] = AlgA
  /\ add_this.ok
  /\ Len(add_this.v) = 2
  /\ \E i \in DOMAIN add_this.v :
       /\ add_this.v[i].memories # EmptyMap
       /\ Len(add_this.v[i].algorithms) = 2
  /\ WrapAllDevices(family_elem) # family_elem
  /\ parse_family(WrapAllDevices(family_elem)) = add_this

\* the children of the element e that carry the name tag
ChildrenNamed(e, tag) ==
  {e.children[i] : i \in {i \in DOMAIN e.children : e.children[i].tag = tag}}

\* the variant elements below the device children of the family e
VariantsOf(e) ==
  UNION {ChildrenNamed(d, "variant") : d \in ChildrenNamed(e, "device")}

\* C15: a memory or an algorithm declared as a child of a variant element is
\* in the Device materialized for that variant
C15_VariantChildrenContribute ==
  add_this.ok =>
    \A v \in VariantsOf(family_elem) :
      \A k \in DOMAIN v.children :
        LET c == v.children[k]
        IN \E i \in DOMAIN add_this.v :
             /\ add_this.v[i].name = v.Dvariant
             /\ (c.tag = "memory" /\ MemElemFromElem(c).ok) =>
                  /\ MemElemFromElem(c).v.name \in DOMAIN add_this.v[i].memories
                  /\ add_this.v[i].memories[MemElemFromElem(c).v.name]
                       = MemElemFromElem(c).v.mem
             /\ (c.tag = "algorithm" /\ AlgorithmFromElem(c).ok) =>
                  \E a \in DOMAIN add_this.v[i].algorithms :
                    add_this.v[i].algorithms[a] = AlgorithmFromElem(c).v

(***************************************************************************)
(* The claims on the walk of one level (checked under SpecPdsc)            *)
(***************************************************************************)
\* the walk stays in the level it is in: the step is a memory, algorithm,
\* processor, variant or other child of that level
SameLevelStep == pc \in Levels /\ pc' = pc

\* C16: a region id the level builder has bound keeps its Memory when a
\* later memory child of the same level declares the id again (the first in
\* document order wins)
C16_FirstMemoryOfALevelWins ==
  [][SameLevelStep =>
       \A k \in DOMAIN LevelBuilder.memories :
         /\ k \in DOMAIN LevelBuilder'.memories
         /\ LevelBuilder'.memories[k] = LevelBuilder.memories[k]]_vars

\* C17: what add_processor makes of the slot of a level (None, or Some
\* builder) and of the builder of the next processor child
SlotAfter(slot, sibling) ==
  IF ~slot.some THEN Some(sibling)
  ELSE IF slot.v.kind = "Asymmetric" /\ sibling.kind = "Asymmetric"
       THEN Some(Asymmetric(
              [k \in DOMAIN slot.v.map \cup DOMAIN sibling.map |->
                 IF k \in DOMAIN sibling.map THEN sibling.map[k] ELSE slot.v.map[k]]))
       ELSE slot

\* C17: the first processor child of a level installs the slot; a later one
\* changes it only when slot and sibling are both Asymmetric, and then the
\* pname map gains the sibling's entries; in every other combination the
\* slot is left as it was
C17_AddProcessorWithinALevel ==
  [][(SameLevelStep /\ prc_child'.some) =>
       /\ LevelBuilder'.processor = SlotAfter(LevelBuilder.processor, prc_child'.v)
       /\ (LevelBuilder.processor.some
            /\ ~(LevelBuilder.processor.v.kind = "Asymmetric"
                 /\ prc_child'.v.kind = "Asymmetric"))
          => LevelBuilder'.processor = LevelBuilder.processor]_vars

\* a level whose slot is Asymmetric with the entries of two siblings, cm0
\* and cm4, has just met a Symmetric sibling
C17_Witness ==
  /\ pc \in Levels
  /\ prc_child.some
  /\ prc_child.v.kind = "Symmetric"
  /\ LevelBuilder.processor.some
  /\ LevelBuilder.processor.v.kind = "Asymmetric"
  /\ DOMAIN LevelBuilder.processor.v.map = {"cm0", "cm4"}

\* what C18 takes a NumberBool attribute to, absent or not: "1" and "true"
\* are true, everything else is false
NumberBoolOrFalse(v) == v \in {"1", "true"}

\* the startup and default of every Memory of the level builder are the
\* NumberBool reading of the attributes of the memory element it was parsed from
C18_MemoryFlagsAreNumberBool ==
  pc \in Levels =>
    \A k \in DOMAIN LevelBuilder.memories :
      \E e \in MemoryElems :
        /\ ~MemElemPanics(e)
        /\ MemElemFromElem(e).ok
        /\ MemElemFromElem(e).v.name = k
        /\ MemElemFromElem(e).v.mem.size = LevelBuilder.memories[k].size
        /\ LevelBuilder.memories[k].startup = NumberBoolOrFalse(e.startup)
        /\ LevelBuilder.memories[k].default = NumberBoolOrFalse(e.default)

\* the default of every Algorithm of the level builder is the NumberBool
\* reading of the default attribute of the algorithm element it was parsed from
C18_AlgorithmDefaultIsNumberBool ==
  pc \in Levels =>
    \A i \in DOMAIN LevelBuilder.algorithms :
      \E e \in AlgorithmElems :
        /\ AlgorithmFromElem(e).ok
        /\ e.name = LevelBuilder.algorithms[i].file_name
        /\ LevelBuilder.algorithms[i].default = NumberBoolOrFalse(e.default)

\* C18: the default of an algorithm and the startup and default of a memory
\* are read as NumberBool: "1" and "true" give true, "0" and "false" give
\* false, an absent or any other value gives false
C18_FlagsAreNumberBool ==
  C18_MemoryFlagsAreNumberBool /\ C18_AlgorithmDefaultIsNumberBool

\* C19: when parse_device returns, the enclosing level gets one builder per
\* variant child, the variant's name on the device level's memories,
\* algorithms and processor, and none for the device element itself; or,
\* when the device has no variant child, the device's own builder alone
C19_LeafMaterialization ==
  [][(pc = "device" /\ pc' \in {"family", "subFamily"}) =>
       LET before == IF pc' = "subFamily" THEN devices ELSE all_devices
           after == IF pc' = "subFamily" THEN devices' ELSE all_devices'
           ret == SubSeq(after, Len(before) + 1, Len(after))
       IN /\ SubSeq(after, 1, Len(before)) = before
          /\ IF variants = <<>> THEN ret = <<device.v>>
             ELSE /\ Len(ret) = Len(variants)
                  /\ \A i \in DOMAIN ret :
                       /\ ret[i].name = Or(variants[i].name, device.v.name)
                       /\ ret[i].memories = device.v.memories
                       /\ ret[i].algorithms = device.v.algorithms
                       /\ ret[i].processor = device.v.processor]_vars

\* the device D1, with a memory and the variants V1 and V2, has returned two
\* builders to its family, V1 and V2, both with the memory of D1
C19_Witness ==
  /\ pc = "family"
  /\ Len(all_devices) = 2
  /\ all_devices[1].name = Some("V1")
  /\ all_devices[2].name = Some("V2")
  /\ \A i \in {1, 2} :
       /\ Len(lin_all[i]) = 2
       /\ lin_all[i][2].name = Some("D1")
       /\ lin_all[i][2].memories # EmptyMap
       /\ all_devices[i].memories = lin_all[i][2].memories

(***************************************************************************)
(* The claim on the end of the crawl (checked under SpecCrawlLive)         *)
(***************************************************************************)
\* the PIDX fetches that ended with a document parse_vidx accepts
FetchedAndParsed ==
  {i \in DOMAIN futs :
     /\ futs[i].st \in {"woken", "gone"}
     /\ ~futs[i].res.transport
     /\ futs[i].res.parsed.ok}

\* the PdscRefs of the root VIDX and of every PIDX fetched and parsed
ExpectedRefs ==
  {root.pdsc_index[k] : k \in DOMAIN root.pdsc_index}
  \cup UNION {{futs[i].res.parsed.v.pdsc_index[k] :
                 k \in DOMAIN futs[i].res.parsed.v.pdsc_index} : i \in FetchedAndParsed}

\* C20: when every fetch completes, the stream of flatmap_pdscs ends, and
\* by then every PdscRef of the root and of every PIDX fetched and parsed
\* has been emitted exactly once, and nothing else has been emitted (a
\* stream that has ended is not polled again: the state that ends it is
\* the last one)
C20_StreamEndsComplete ==
  <>(/\ ended
     /\ \A ref \in ExpectedRefs : Cardinality(Emitted(ref)) = 1
     /\ \A p \in DOMAIN out : out[p].ok => out[p].v \in ExpectedRefs)

\* S1: the root has one PdscRef and one Pidx, whose document has two: the
\* stream has ended after exactly these three
C20_Witness ==
  /\ ended
  /\ Len(root.pdsc_index) = 1
  /\ Len(root.vendor_index) = 1
  /\ FetchedAndParsed = {1}
  /\ Len(futs[1].res.parsed.v.pdsc_index) = 2
  /\ Len(out) = 3
  /\ {out[p] : p \in DOMAIN out} =
       {Ok(PdscRefOf("root", 1)), Ok(PdscRefOf(Vendors[1], 1)), Ok(PdscRefOf(Vendors[1], 2))}

(***************************************************************************)
(* The position of a level's own children among its child levels           *)
(***************************************************************************)
IsChildLevel(c) == c.tag \in {"subFamily", "device", "variant"}

\* the children of a level with its memory, algorithm and processor
\* elements all placed before, or all placed after, its child levels
ContributionsFirst(children) ==
  LET IsContribution(c) == ~IsChildLevel(c)
  IN SelectSeq(children, IsContribution) \o SelectSeq(children, IsChildLevel)

ContributionsLast(children) ==
  LET IsContribution(c) == ~IsChildLevel(c)
  IN SelectSeq(children, IsChildLevel) \o SelectSeq(children, IsContribution)

\* the family e with the memory element mem as one more child, after its
\* first p children
WithMemoryAt(e, p, mem) ==
  Element(e, SubSeq(e.children, 1, p) \o <<mem>> \o SubSeq(e.children, p + 1, Len(e.children)))

\* C21: a memory, algorithm or processor element of a family or of a
\* subFamily placed after a device (or subFamily) element is inherited by
\* that device exactly as if it were placed before it: moving all such
\* elements before all child levels leaves what parse_family returns
\* unchanged; so does moving them before, or after, all child levels for
\* parse_sub_family; and a memory element added to the family gives the
\* same Devices wherever among the children it stands.  Every family tree
\* is the first family of some document and the comparison is made there;
\* the subFamily and the added memory are one more element of the document.
C21_SiblingPositionIsIrrelevant ==
  Len(returned) = 1 =>
    LET cs == family_elem.children
        sub == EmptySubFamily(cs)
    IN /\ parse_family(Element(family_elem, ContributionsFirst(cs))) = add_this
       /\ nelem < MaxTopElems =>
            /\ \E ret \in {parse_sub_family(sub)} :
                 /\ parse_sub_family(Element(sub, ContributionsFirst(cs))) = ret
                 /\ parse_sub_family(Element(sub, ContributionsLast(cs))) = ret
            /\ \E ret \in {parse_family(WithMemoryAt(family_elem, 0, MemIROM1))} :
                 \A p \in 1..Len(cs) :
                   parse_family(WithMemoryAt(family_elem, p, MemIROM1)) = ret

\* a family whose processor and algorithm stand after its device: the
\* Device built has that processor and that algorithm
C21_Witness ==
  /\ Len(returned) = 1
  /\ nelem < MaxTopElems
  /\ \E i, j, k \in DOMAIN family_elem.children :
       /\ i < j /\ i < k
       /\ family_elem.children[i] = DevD1
       /\ family_elem.children[j] = PrcM4Fpu
       /\ family_elem.children[k] = AlgA
  /\ ContributionsFirst(family_elem.children) # family_elem.children
  /\ add_this.ok
  /\ \E n \in DOMAIN add_this.v :
       /\ add_this.v[n].name = "D1"
       /\ Len(add_this.v[n].algorithms) = 1
       /\ add_this.v[n].memories # EmptyMap
  /\ add_this = parse_family(Element(family_elem, ContributionsFirst(family_elem.children)))
  /\ LET last == parse_family(WithMemoryAt(family_elem, Len(family_elem.children), MemIROM1))
     IN /\ last.ok
        /\ \E n \in DOMAIN last.v :
             last.v[n].name = "D1" /\ DOMAIN last.v[n].memories = {"IRAM1", "IROM1"}

====
